---- MODULE Spec2Model ----
(***************************************************************************)
(* Construction of the parallel lexer tables                               *)
(* (src/src/lexer/parallel_lexer.cpp, ParallelLexer::ParallelLexer).       *)
(*                                                                         *)
(* The constructor is a batch computation over one input DFA.  The model   *)
(* runs it as a state machine: one step lifts the DFA, one step interns    *)
(* each symbol's initial state, one step interns the identity, one step    *)
(* per call of the merge lambda in the saturation loop, one step fills     *)
(* final_states.                                                           *)
(*                                                                         *)
(* Vectors are sequences; the element the code calls v[k] is v[k + 1].     *)
(*                                                                         *)
(* REJECT is no valid DFA state, and a ParallelState has dfa.num_states()  *)
(* slots, so ParallelState::merge reads other.transitions[REJECT] out of   *)
(* range whenever a slot of the left operand holds REJECT, and line 212    *)
(* reads dfa[REJECT] when a START slot holds it.  Such a read is undefined *)
(* behaviour: the run either ends there (pc = "aborted") or the read       *)
(* yields some value, drawn from every value a slot can hold the first     *)
(* time the location is read and found there again by the later reads      *)
(* (Spec), or until the memory is overwritten (SpecVolatile).              *)
(*                                                                         *)
(* MergeTable is also run on its own, under any sequence of resize calls   *)
(* and writes (SpecTable).                                                 *)
(*                                                                         *)
(* The input is the DFA.  Its transitions are drawn in Init; its lexemes,  *)
(* which the constructor reads at line 212 only, are drawn by that step.   *)
(***************************************************************************)
EXTENDS Integers, Sequences, FiniteSets, TLC

(***************************************************************************)
(* Bounds of the model and constants of the program.                       *)
(***************************************************************************)
\* dfa.num_states() of every input DFA of the model.
NumStates == 2

\* FiniteStateAutomaton::MAX_SYM of the model: the alphabet is 0..MAX_SYM.
MAX_SYM == 1

\* The designated start state of the DFA.
START == 0

\* The sentinel StateIndex: a value that is no valid DFA state.
REJECT == 0 - 1

\* MergeTable's first capacity (of the model) and its growth factor.
MIN_SIZE == 2
GROW_FACTOR == 2

DfaStates == 0 .. (NumStates - 1)
Symbols == 0 .. MAX_SYM

\* Lexeme handles: nullptr, or the handle attached to a DFA state.
nullptr == 0
Lexemes == {s + 1 : s \in DfaStates}

(***************************************************************************)
(* Transition and ParallelState.                                           *)
(***************************************************************************)
\* Transition::Transition(result_state, produces_lexeme)
Transition(r, p) == [result_state |-> r, produces_lexeme |-> p]

\* Transition::Transition()
DefaultTransition == Transition(REJECT, FALSE)

\* ParallelState::ParallelState(states): `states` default transitions.
ParallelState(n) == [s \in 0 .. (n - 1) |-> DefaultTransition]

\* What a read of transitions[k] with k outside the vector may yield when it
\* yields a value at all: any Transition over the values a slot can hold.
Garbage == {Transition(r, p) : r \in DfaStates \cup {REJECT}, p \in BOOLEAN}

\* Does self.merge(other) index other.transitions out of range?
ReadsOutOfRange(self, other) ==
    \E s \in DOMAIN self : self[s].result_state \notin DOMAIN other

\* ParallelState::merge reading other.transitions[START] for every slot
\* instead of other.transitions[state.result_state].
ParallelState_merge_from_start(self, other, g) ==
    [s \in DOMAIN self |-> other[START]]

\* ParallelState::merge: state = other.transitions[state.result_state] for
\* every slot; g is what the out-of-range read yields.
ParallelState_merge(self, other, g) ==
    [s \in DOMAIN self |->
        IF self[s].result_state \in DOMAIN other
        THEN other[self[s].result_state]
        ELSE g]

\* operator==(ParallelState, ParallelState): std::equal over both ranges with
\* the element-wise comparison of both fields.
ParallelState_eq(lhs, rhs) ==
    /\ DOMAIN lhs = DOMAIN rhs
    /\ \A s \in DOMAIN lhs :
          /\ lhs[s].result_state = rhs[s].result_state
          /\ lhs[s].produces_lexeme = rhs[s].produces_lexeme

(***************************************************************************)
(* MergeTable: num_states, capacity and the linear storage merge_table     *)
(* (cells), a function on 0 .. capacity * capacity - 1.                    *)
(***************************************************************************)
\* MergeTable::MergeTable()
EmptyMergeTable ==
    [num_states |-> 0, capacity |-> 0, cells |-> [o \in {} |-> DefaultTransition]]

\* MergeTable::index: the linear offset (the assertions are IndexAsserts).
index(mt, first, second) == first + second * mt.capacity

IndexAsserts(mt, first, second) ==
    first <= mt.num_states /\ second <= mt.num_states

\* MergeTable::operator()(first, second) const
Cell(mt, first, second) == mt.cells[index(mt, first, second)]

\* MergeTable::operator()(first, second) = t
SetCell(mt, first, second, t) ==
    [mt EXCEPT !.cells[index(mt, first, second)] = t]

Max(a, b) == IF a >= b THEN a ELSE b

\* while (new_capacity < new_num_states) new_capacity *= GROW_FACTOR;
RECURSIVE GrowCapacity(_, _)
GrowCapacity(cap, n) ==
    IF cap < n THEN GrowCapacity(cap * GROW_FACTOR, n) ELSE cap

\* MergeTable::resize copying the old storage by linear offset instead of by
\* (first, second): the stride change is ignored.
resize_by_offset(mt, new_num_states) ==
    IF new_num_states <= mt.capacity
    THEN [mt EXCEPT !.num_states = new_num_states]
    ELSE LET new_capacity == GrowCapacity(Max(MIN_SIZE, mt.capacity), new_num_states)
         IN [num_states |-> new_num_states,
             capacity |-> new_capacity,
             cells |-> [o \in 0 .. (new_capacity * new_capacity - 1) |->
                          IF o < mt.capacity * mt.capacity
                          THEN mt.cells[o]
                          ELSE DefaultTransition]]

\* MergeTable::resize
resize(mt, new_num_states) ==
    IF new_num_states <= mt.capacity
    THEN [mt EXCEPT !.num_states = new_num_states]
    ELSE LET new_capacity == GrowCapacity(Max(MIN_SIZE, mt.capacity), new_num_states)
         IN [num_states |-> new_num_states,
             capacity |-> new_capacity,
             cells |-> [o \in 0 .. (new_capacity * new_capacity - 1) |->
                          LET first == o % new_capacity
                              second == o \div new_capacity
                          IN IF first < mt.num_states /\ second < mt.num_states
                             THEN Cell(mt, first, second)
                             ELSE DefaultTransition]]

(***************************************************************************)
(* The input DFAs: every deterministic automaton over DfaStates and        *)
(* Symbols, each state with or without a lexeme.                           *)
(***************************************************************************)
Slots == DfaStates \X Symbols

\* Edge code 0: no transition; code c > 0: dst = (c - 1) \div 2, flag = odd.
EdgeCodes == 0 .. (2 * NumStates)

TransitionsOf(f) ==
    {[src |-> sl[1], sym |-> sl[2],
      dst |-> (f[sl] - 1) \div 2,
      produces_lexeme |-> ((f[sl] - 1) % 2 = 1)] : sl \in {x \in Slots : f[x] # 0}}

DFAs == {[transitions |-> TransitionsOf(f)] : f \in [Slots -> EdgeCodes]}

\* The lexeme of every state: nullptr, or the state's own handle.
LexemeMaps ==
    {[s \in DfaStates |-> IF s \in A THEN s + 1 ELSE nullptr] : A \in SUBSET DfaStates}

VARIABLES
    dfa,                  \* the DFA build_lexer_dfa returned: its transitions
    dfa_lexeme,           \* dfa[s].lexeme, drawn when line 212 first reads it
    pc,                   \* where the constructor is
    lifted,               \* the local vector initial_states of the first block
    sym,                  \* the symbol loop's counter
    seen,                 \* the map ParallelState -> StateIndex, as its entries
    states,               \* the vector of interned ParallelStates
    merge_table,          \* this->merge_table
    initial_states,       \* this->initial_states
    identity_state_index, \* this->identity_state_index
    i, j, half,           \* the saturation loop: i, j and which merge is next
    final_states,         \* this->final_states
    oob                   \* what sits at transitions[REJECT], drawn when
                          \* ParallelState::merge first reads it, and how
                          \* often that memory has been overwritten since

vars == <<dfa, dfa_lexeme, pc, lifted, sym, seen, states, merge_table, initial_states,
          identity_state_index, i, j, half, final_states, oob>>

\* Element k of a vector.
At(v, k) == v[k + 1]

(***************************************************************************)
(* The interner.                                                           *)
(***************************************************************************)
\* seen.find(ps): the entries whose key equals ps.
Find(sn, ps) == {e \in sn : ParallelState_eq(e.key, ps)}

\* The enqueue lambda putting a new state at the front of states instead of
\* at the back.
enqueue_at_front(sn, st, mt, ps) ==
    IF Find(sn, ps) # {}
    THEN [seen |-> sn, states |-> st, merge_table |-> mt,
          index |-> (CHOOSE e \in Find(sn, ps) : TRUE).value]
    ELSE [seen |-> sn \cup {[key |-> ps, value |-> Len(st)]},
          states |-> <<ps>> \o st,
          merge_table |-> resize(mt, Len(st) + 1),
          index |-> Len(st)]

\* The enqueue lambda without the lookup: every state is inserted.
enqueue_always_inserts(sn, st, mt, ps) ==
    [seen |-> sn \cup {[key |-> ps, value |-> Len(st)]},
     states |-> Append(st, ps),
     merge_table |-> resize(mt, Len(st) + 1),
     index |-> Len(st)]

\* The enqueue lambda, as the state it leaves and the index it returns.
enqueue(sn, st, mt, ps) ==
    IF Find(sn, ps) # {}
    THEN [seen |-> sn, states |-> st, merge_table |-> mt,
          index |-> (CHOOSE e \in Find(sn, ps) : TRUE).value]
    ELSE [seen |-> sn \cup {[key |-> ps, value |-> Len(st)]},
          states |-> Append(st, ps),
          merge_table |-> resize(mt, Len(st) + 1),
          index |-> Len(st)]

(***************************************************************************)
(* The constructor.                                                        *)
(***************************************************************************)
\* LiftSymbol without line 139: the flag of the transition is not copied.
LiftSymbol_no_flag(d, c) ==
    [src \in DfaStates |->
        IF \E t \in d.transitions : t.src = src /\ t.sym = c
        THEN LET t == CHOOSE t \in d.transitions : t.src = src /\ t.sym = c
             IN Transition(t.dst, FALSE)
        ELSE ParallelState(NumStates)[src]]

\* initial_states[sym].transitions[src] = (dst, produces_lexeme) for every
\* transition of the DFA.
LiftSymbol(d, c) ==
    [src \in DfaStates |->
        IF \E t \in d.transitions : t.src = src /\ t.sym = c
        THEN LET t == CHOOSE t \in d.transitions : t.src = src /\ t.sym = c
             IN Transition(t.dst, t.produces_lexeme)
        ELSE ParallelState(NumStates)[src]]

Init ==
    /\ dfa \in DFAs
    /\ dfa_lexeme = [s \in DfaStates |-> nullptr]
    /\ oob = [drawn |-> FALSE, value |-> DefaultTransition, clobbers |-> 0]
    /\ pc = "lift"
    /\ lifted = <<>>
    /\ sym = 0
    /\ seen = {}
    /\ states = <<>>
    /\ merge_table = EmptyMergeTable
    /\ initial_states = <<>>
    /\ identity_state_index = 0
    /\ i = 0
    /\ j = 0
    /\ half = 0
    /\ final_states = <<>>

\* Lines 129-143: build the lifted states, resize this->initial_states.
Lift ==
    /\ pc = "lift"
    /\ lifted' = [c \in 1 .. (MAX_SYM + 1) |-> LiftSymbol(dfa, c - 1)]
    /\ initial_states' = [c \in 1 .. (MAX_SYM + 1) |-> DefaultTransition]
    /\ pc' = "seed"
    /\ UNCHANGED <<dfa, dfa_lexeme, sym, seen, states, merge_table, identity_state_index,
                   i, j, half, final_states, oob>>

\* Lines 144-148: one iteration of the symbol loop.
SeedSymbol ==
    /\ pc = "seed"
    /\ sym < Len(lifted)
    /\ LET state == At(lifted, sym)
           r == enqueue(seen, states, merge_table, state)
       IN /\ initial_states' =
                [initial_states EXCEPT ![sym + 1] =
                    Transition(r.index, state[START].produces_lexeme)]
          /\ seen' = r.seen
          /\ states' = r.states
          /\ merge_table' = r.merge_table
    /\ sym' = sym + 1
    /\ UNCHANGED <<dfa, dfa_lexeme, pc, lifted, identity_state_index, i, j, half,
                   final_states, oob>>

\* identity.transitions[i].result_state = i for every i.
IdentityState ==
    [s \in DfaStates |-> [ParallelState(NumStates)[s] EXCEPT !.result_state = s]]

\* Lines 157-163: the symbol loop is over; intern the identity.
SeedIdentity ==
    /\ pc = "seed"
    /\ sym >= Len(lifted)
    /\ LET r == enqueue(seen, states, merge_table, IdentityState)
       IN /\ identity_state_index' = r.index
          /\ seen' = r.seen
          /\ states' = r.states
          /\ merge_table' = r.merge_table
          /\ pc' = IF 0 < Len(r.states) THEN "saturate" ELSE "final"
    /\ i' = 0
    /\ j' = 0
    /\ half' = 0
    /\ UNCHANGED <<dfa, dfa_lexeme, lifted, sym, initial_states, final_states, oob>>

\* The merge lambda without the branch of lines 173-174: an identity on the
\* right is composed like any other state.
merge_left_shortcut_only(a, b, g) ==
    LET composed == ParallelState_merge(At(states, a), At(states, b), g)
        r == IF a = identity_state_index
             THEN [seen |-> seen, states |-> states, merge_table |-> merge_table,
                   index |-> b]
             ELSE enqueue(seen, states, merge_table, composed)
        result == r.index
        produces_lexeme == At(r.states, result)[START].produces_lexeme
    IN [seen |-> r.seen, states |-> r.states,
        merge_table |-> SetCell(r.merge_table, a, b, Transition(result, produces_lexeme))]

\* The merge lambda, lines 166-183: the state merge(a, b) leaves.
merge(a, b, g) ==
    LET composed == ParallelState_merge(At(states, a), At(states, b), g)
        r == IF a = identity_state_index
             THEN [seen |-> seen, states |-> states, merge_table |-> merge_table,
                   index |-> b]
             ELSE IF b = identity_state_index
             THEN [seen |-> seen, states |-> states, merge_table |-> merge_table,
                   index |-> a]
             ELSE enqueue(seen, states, merge_table, composed)
        result == r.index
        produces_lexeme == At(r.states, result)[START].produces_lexeme
    IN [seen |-> r.seen, states |-> r.states,
        merge_table |-> SetCell(r.merge_table, a, b, Transition(result, produces_lexeme))]

\* merge(a, b) composes (neither operand is the identity) and the composition
\* reads states[b].transitions out of range.
MergeReadsOutOfRange(a, b) ==
    /\ a # identity_state_index
    /\ b # identity_state_index
    /\ ReadsOutOfRange(At(states, a), At(states, b))

\* The values the out-of-range read of merge(a, b) may yield: the one drawn
\* before, or any.
ReadValues(a, b) ==
    IF MergeReadsOutOfRange(a, b) /\ ~oob.drawn THEN Garbage ELSE {oob.value}

OobAfter(a, b, g) ==
    IF MergeReadsOutOfRange(a, b)
    THEN [oob EXCEPT !.drawn = TRUE, !.value = g]
    ELSE oob

\* Line 193: merge(i, j).
MergeIJ ==
    /\ pc = "saturate"
    /\ half = 0
    /\ \E g \in ReadValues(i, j) :
          LET r == merge(i, j, g)
          IN /\ seen' = r.seen
             /\ states' = r.states
             /\ merge_table' = r.merge_table
             /\ oob' = OobAfter(i, j, g)
    /\ half' = 1
    /\ UNCHANGED <<dfa, dfa_lexeme, pc, lifted, sym, initial_states,
                   identity_state_index, i, j, final_states>>

\* The inner loop without line 194: merge(j, i) is not called.
MergeJI_not_called ==
    /\ pc = "saturate"
    /\ half = 1
    /\ IF j + 1 < Len(states)
       THEN /\ j' = j + 1
            /\ UNCHANGED <<i, pc>>
       ELSE /\ j' = 0
            /\ i' = i + 1
            /\ pc' = IF i + 1 < Len(states) THEN "saturate" ELSE "final"
    /\ half' = 0
    /\ UNCHANGED <<dfa, dfa_lexeme, lifted, sym, seen, states, merge_table,
                   initial_states, identity_state_index, final_states, oob>>

\* Line 194: merge(j, i), then ++j and the loop conditions of lines 186, 192.
MergeJI ==
    /\ pc = "saturate"
    /\ half = 1
    /\ \E g \in ReadValues(j, i) :
          LET r == merge(j, i, g)
          IN /\ seen' = r.seen
             /\ states' = r.states
             /\ merge_table' = r.merge_table
             /\ oob' = OobAfter(j, i, g)
             /\ IF j + 1 < Len(r.states)
                THEN /\ j' = j + 1
                     /\ UNCHANGED <<i, pc>>
                ELSE /\ j' = 0
                     /\ i' = i + 1
                     /\ pc' = IF i + 1 < Len(r.states) THEN "saturate" ELSE "final"
    /\ half' = 0
    /\ UNCHANGED <<dfa, dfa_lexeme, lifted, sym, initial_states,
                   identity_state_index, final_states>>

\* The out-of-range read of ParallelState::merge ends the process instead of
\* yielding a value.
MergeAbort ==
    /\ pc = "saturate"
    /\ IF half = 0 THEN MergeReadsOutOfRange(i, j) ELSE MergeReadsOutOfRange(j, i)
    /\ pc' = "aborted"
    /\ UNCHANGED <<dfa, dfa_lexeme, lifted, sym, seen, states, merge_table, initial_states,
                   identity_state_index, i, j, half, final_states, oob>>

\* dfa[s].lexeme; g is what the read yields when s is no state of the DFA.
LexemeAt(l, s, g) == IF s \in DOMAIN l THEN l[s] ELSE g

\* Some entry of seen makes line 212 index the DFA out of range.
FinalReadsOutOfRange ==
    \E e \in seen : e.key[START].result_state \notin DfaStates

\* Lines 210-213: final_states[i] = dfa[ps.transitions[START].result_state].lexeme
\* for every entry (ps, i) of seen.
FinalStatesOf(sn, l, g) ==
    [k \in 1 .. Cardinality(sn) |->
        IF \E e \in sn : e.value = k - 1
        THEN LexemeAt(l, (CHOOSE e \in sn : e.value = k - 1).key[START].result_state, g)
        ELSE nullptr]

Final ==
    /\ pc = "final"
    /\ \E l \in LexemeMaps :
          /\ dfa_lexeme' = l
          /\ \E g \in IF FinalReadsOutOfRange THEN Lexemes \cup {nullptr} ELSE {nullptr} :
                final_states' = FinalStatesOf(seen, l, g)
    /\ pc' = "done"
    /\ UNCHANGED <<dfa, lifted, sym, seen, states, merge_table, initial_states,
                   identity_state_index, i, j, half, oob>>

\* The out-of-range read of the DFA ends the process.
FinalAbort ==
    /\ pc = "final"
    /\ FinalReadsOutOfRange
    /\ pc' = "aborted"
    /\ UNCHANGED <<dfa, dfa_lexeme, lifted, sym, seen, states, merge_table, initial_states,
                   identity_state_index, i, j, half, final_states, oob>>

(***************************************************************************)
(* The completed artifact.                                                 *)
(***************************************************************************)
Done == pc = "done"

\* K: the number of interned parallel states.
K == Len(states)
Indices == 0 .. (K - 1)

\* merge_table[a, b].result_state
Result(a, b) == Cell(merge_table, a, b).result_state

\* A state was interned by the saturation sweep, after the seeds.
SweepInterned == \E e \in seen : e.value > identity_state_index

(***************************************************************************)
(* C1.  Closure: when the constructor finishes, the merge table has        *)
(* logical side K and every cell (a, b) with a, b < K holds a result_state *)
(* in [0, K): the sweep wrote it, none is left at (REJECT, false).         *)
(***************************************************************************)
C1_Closure ==
    Done =>
        /\ merge_table.num_states = K
        /\ \A a \in Indices : \A b \in Indices :
              /\ Result(a, b) \in Indices
              /\ Cell(merge_table, a, b) # DefaultTransition

\* The sweep interned states beyond the seeds and the table was reallocated.
C1_Witness ==
    /\ Done
    /\ SweepInterned
    /\ merge_table.capacity > MIN_SIZE

(***************************************************************************)
(* C4.  Identity unit law: identity_state_index is the index of the state  *)
(* I with I[s] = (s, false), and merge_table[identity, k] and              *)
(* merge_table[k, identity] have result_state k for every interned k.      *)
(***************************************************************************)
C4_IdentityUnit ==
    Done =>
        /\ identity_state_index \in Indices
        /\ At(states, identity_state_index) = [s \in DfaStates |-> Transition(s, FALSE)]
        /\ \A k \in Indices :
              /\ Result(identity_state_index, k) = k
              /\ Result(k, identity_state_index) = k

\* The identity coincides with a symbol's initial state, and some interned
\* state carries a produces_lexeme flag.
C4_Witness ==
    /\ Done
    /\ \E c \in Symbols : At(initial_states, c).result_state = identity_state_index
    /\ \E k \in Indices : \E s \in DfaStates : At(states, k)[s].produces_lexeme

(***************************************************************************)
(* C7.  Initial states: initial_states has MAX_SYM + 1 entries; entry c    *)
(* names an interned state that holds (dst, produces_lexeme) at src for    *)
(* every DFA transition (src, c, dst, produces_lexeme) and (REJECT, false) *)
(* at every src without a transition on c; its flag is that state's flag   *)
(* at START; symbols with equal lifted states share the index.             *)
(***************************************************************************)
IsLiftOf(ps, c) ==
    /\ DOMAIN ps = DfaStates
    /\ \A t \in dfa.transitions :
          t.sym = c => ps[t.src] = Transition(t.dst, t.produces_lexeme)
    /\ \A src \in DfaStates :
          (~\E t \in dfa.transitions : t.sym = c /\ t.src = src)
              => ps[src] = Transition(REJECT, FALSE)

\* The DFA has the same transitions on c1 and on c2.
SameLift(c1, c2) ==
    \A src \in DfaStates :
        {<<t.dst, t.produces_lexeme>> : t \in {u \in dfa.transitions : u.src = src /\ u.sym = c1}}
          = {<<t.dst, t.produces_lexeme>> : t \in {u \in dfa.transitions : u.src = src /\ u.sym = c2}}

C7_InitialStates ==
    Done =>
        /\ Len(initial_states) = MAX_SYM + 1
        /\ \A c \in Symbols :
              /\ At(initial_states, c).result_state \in Indices
              /\ IsLiftOf(At(states, At(initial_states, c).result_state), c)
              /\ At(initial_states, c).produces_lexeme
                    = At(states, At(initial_states, c).result_state)[START].produces_lexeme
        /\ \A c1 \in Symbols : \A c2 \in Symbols :
              SameLift(c1, c2)
                 => At(initial_states, c1).result_state = At(initial_states, c2).result_state

\* Two symbols share an index, and a symbol's state has a flagged transition
\* from START and a missing transition.
C7_Witness ==
    /\ Done
    /\ At(initial_states, 0).result_state = At(initial_states, 1).result_state
    /\ At(initial_states, 0).produces_lexeme
    /\ \E src \in DfaStates : ~\E t \in dfa.transitions : t.sym = 0 /\ t.src = src

(***************************************************************************)
(* The composition the specification asks of ParallelState::merge: apply   *)
(* first, then second, with REJECT absorbing.                              *)
(***************************************************************************)
Composition(first, second) ==
    [s \in DOMAIN first |->
        IF first[s].result_state = REJECT
        THEN Transition(REJECT, FALSE)
        ELSE second[first[s].result_state]]

\* Some interned index holds a state structurally equal to ps.
Interned(ps) == \E k \in Indices : ParallelState_eq(At(states, k), ps)

(***************************************************************************)
(* C2.  Merge-table entry correctness: for a, b not the identity,          *)
(* merge_table[a, b] = (r, f) with states[r] structurally equal to the     *)
(* composition of states[a] then states[b] and f its flag at START; when   *)
(* an operand is the identity the entry is (other, states[other][START]    *)
(* .produces_lexeme).                                                      *)
(***************************************************************************)
C2_EntryCorrect ==
    Done =>
        \A a \in Indices : \A b \in Indices :
            IF a # identity_state_index /\ b # identity_state_index
            THEN LET composed == Composition(At(states, a), At(states, b))
                 IN /\ Result(a, b) \in Indices
                    /\ ParallelState_eq(At(states, Result(a, b)), composed)
                    /\ Cell(merge_table, a, b).produces_lexeme
                          = composed[START].produces_lexeme
            ELSE LET other == IF a = identity_state_index THEN b ELSE a
                 IN Cell(merge_table, a, b)
                       = Transition(other, At(states, other)[START].produces_lexeme)

(***************************************************************************)
(* C3.  Saturation.  As claimed: for every pair (a, b) of interned         *)
(* indices, identity included, ParallelState::merge of a copy of states[a] *)
(* with states[b] yields a state that is already interned (for some value  *)
(* of the out-of-range read, when the call makes one).                     *)
(***************************************************************************)
\* The values a scratch run of states[a].merge(states[b]) may read.
ScratchReads(a, b) ==
    IF ReadsOutOfRange(At(states, a), At(states, b)) THEN Garbage ELSE {DefaultTransition}

ScratchInterned(a, b) ==
    \E g \in ScratchReads(a, b) :
        Interned(ParallelState_merge(At(states, a), At(states, b), g))

C5_Associativity ==
    Done =>
        \A a \in Indices : \A b \in Indices : \A c \in Indices :
            Result(Result(a, b), c) = Result(a, Result(b, c))

(***************************************************************************)
(* C6.  Structural soundness: folding the initial states of a non-empty    *)
(* byte sequence through merge_table ends at an index whose final_states   *)
(* entry is the lexeme of the DFA state the sequential run from START      *)
(* reaches (nullptr when it has none or the run has no transition).        *)
(***************************************************************************)
\* The longest byte sequence folded.
MaxLen == 3

ByteSeqs == UNION {[1 .. n -> Symbols] : n \in 1 .. MaxLen}

\* One step of the sequential DFA; REJECT when there is no transition.
DfaStep(q, c) ==
    IF \E t \in dfa.transitions : t.src = q /\ t.sym = c
    THEN (CHOOSE t \in dfa.transitions : t.src = q /\ t.sym = c).dst
    ELSE REJECT

RECURSIVE DfaRun(_, _)
DfaRun(q, bs) ==
    IF bs = <<>> \/ q = REJECT THEN q ELSE DfaRun(DfaStep(q, Head(bs)), Tail(bs))

RECURSIVE FoldFrom(_, _)
FoldFrom(r, bs) ==
    IF bs = <<>> THEN r
    ELSE FoldFrom(Result(r, At(initial_states, Head(bs)).result_state), Tail(bs))

Fold(bs) == FoldFrom(At(initial_states, Head(bs)).result_state, Tail(bs))

\* dfa.lexeme_at(q), absent for REJECT.
LexemeOf(q) == IF q = REJECT THEN nullptr ELSE dfa_lexeme[q]

C6_StructuralSoundness ==
    Done =>
        \A bs \in ByteSeqs :
            /\ Fold(bs) \in Indices
            /\ At(final_states, Fold(bs)) = LexemeOf(DfaRun(START, bs))

(***************************************************************************)
(* C8.  Final-states table: final_states has K entries and entry k is      *)
(* dfa.lexeme_at(states[k][START].result_state), absent when that state    *)
(* has no lexeme.                                                          *)
(***************************************************************************)
C8_FinalStates ==
    Done =>
        /\ Len(final_states) = K
        /\ merge_table.num_states = K
        /\ \A k \in Indices :
              At(final_states, k) = LexemeOf(At(states, k)[START].result_state)

(***************************************************************************)
(* C9.  REJECT is absorbing in ParallelState::merge: a call self.merge(    *)
(* other) reads other only inside [0, N), and a slot of self that held     *)
(* REJECT before the call holds (REJECT, false) after it.                  *)
(***************************************************************************)
\* The operands of the call of the merge lambda that is next.
PendingFirst == IF half = 0 THEN i ELSE j
PendingSecond == IF half = 0 THEN j ELSE i

C9_RejectAbsorbing ==
    [][(/\ pc = "saturate"
        /\ PendingFirst # identity_state_index
        /\ PendingSecond # identity_state_index)
       => /\ ~ReadsOutOfRange(At(states, PendingFirst), At(states, PendingSecond))
          /\ \A s \in DfaStates :
                At(states, PendingFirst)[s].result_state = REJECT
                   => At(states', Cell(merge_table', PendingFirst, PendingSecond).result_state)[s]
                         = DefaultTransition]_vars

(***************************************************************************)
(* C10.  Dead input: for a symbol c with no transition from any state,     *)
(* d = initial_states[c].result_state is the all-(REJECT, false) state,    *)
(* merge_table[d, k] and merge_table[k, d] name d for every interned k,    *)
(* and final_states[d] is absent.                                          *)
(***************************************************************************)
DeadSymbol(c) == ~\E t \in dfa.transitions : t.sym = c

C10_DeadInput ==
    Done =>
        \A c \in Symbols :
            DeadSymbol(c) =>
                LET d == At(initial_states, c).result_state
                IN /\ At(states, d) = ParallelState(NumStates)
                   /\ \A k \in Indices : Result(d, k) = d /\ Result(k, d) = d
                   /\ At(final_states, d) = nullptr

\* The run read nothing out of range.
NoOutOfRangeRead == ~oob.drawn /\ oob.clobbers = 0 /\ ~FinalReadsOutOfRange

(***************************************************************************)
(* C11.  Idempotent self-merge.  As claimed: when the DFA has a state s    *)
(* with a self-loop on x whose produces_lexeme is false, and               *)
(* a = initial_states[x].result_state, merge_table[a, a].result_state = a. *)
(***************************************************************************)
SelfLoop(x, s) ==
    \E t \in dfa.transitions :
        t.src = s /\ t.dst = s /\ t.sym = x /\ ~t.produces_lexeme

InitialIndex(x) == At(initial_states, x).result_state

C11_IdempotentSelfMerge ==
    Done =>
        \A x \in Symbols :
            (\E s \in DfaStates : SelfLoop(x, s))
                => Result(InitialIndex(x), InitialIndex(x)) = InitialIndex(x)

\* C11, amended: the state merge_table[a, a].result_state names holds
\* (s, false) in slot s, the row of the self-looping state, as states[a] does.
C11_SelfMergeRow ==
    Done =>
        \A x \in Symbols : \A s \in DfaStates :
            SelfLoop(x, s) =>
                /\ Result(InitialIndex(x), InitialIndex(x)) \in Indices
                /\ At(states, Result(InitialIndex(x), InitialIndex(x)))[s]
                      = Transition(s, FALSE)
                /\ At(states, InitialIndex(x))[s] = Transition(s, FALSE)

\* A self-looping symbol whose state is not idempotent.
C11_Witness ==
    /\ Done
    /\ \E x \in Symbols : \E s \in DfaStates :
          /\ SelfLoop(x, s)
          /\ Result(InitialIndex(x), InitialIndex(x)) # InitialIndex(x)
          /\ ~oob.drawn

\* The states the next step of the constructor may pass to enqueue.
PendingStates ==
    IF pc = "seed"
    THEN {IF sym < Len(lifted) THEN At(lifted, sym) ELSE IdentityState}
    ELSE IF /\ pc = "saturate"
            /\ PendingFirst # identity_state_index
            /\ PendingSecond # identity_state_index
    THEN {ParallelState_merge(At(states, PendingFirst), At(states, PendingSecond), g) :
             g \in ReadValues(PendingFirst, PendingSecond)}
    ELSE {}

(***************************************************************************)
(* C15.  Interner consistency: seen, states and the merge table agree in   *)
(* size; every entry (ps -> k) of seen has k < states.size() and states[k] *)
(* structurally equal to ps; no two distinct indices hold structurally     *)
(* equal states; enqueue of an already-present state returns its index and *)
(* changes none of the three.                                              *)
(***************************************************************************)
C15_InternerConsistent ==
    /\ Cardinality(seen) = Len(states)
    /\ Len(states) = merge_table.num_states
    /\ \A e \in seen :
          /\ e.value \in Indices
          /\ ParallelState_eq(At(states, e.value), e.key)
    /\ \A a \in Indices : \A b \in (a + 1) .. (K - 1) :
          ~ParallelState_eq(At(states, a), At(states, b))
    /\ \A ps \in PendingStates :
          Find(seen, ps) # {} =>
              LET r == enqueue(seen, states, merge_table, ps)
              IN /\ r.index \in Indices
                 /\ ParallelState_eq(At(states, r.index), ps)
                 /\ r.seen = seen
                 /\ r.states = states
                 /\ r.merge_table = merge_table

\* Saturation has interned new states, and a merge of two non-identity
\* states has returned the index of a state interned before both.
C15_Witness ==
    /\ pc \in {"saturate", "final", "done"}
    /\ K > MAX_SYM + 2
    /\ \E a \in Indices : \E b \in Indices :
          /\ a # identity_state_index
          /\ b # identity_state_index
          /\ Result(a, b) \in Indices
          /\ Result(a, b) < a
          /\ Result(a, b) < b

(***************************************************************************)
(* C16.  Interner index stability: in every step of construction the       *)
(* states vector only grows at the back, a newly interned state gets the   *)
(* index equal to the number of distinct states interned before it, and    *)
(* for every index k handed out before the step, states[k] is unchanged    *)
(* and interning a structurally equal state still returns k.               *)
(***************************************************************************)
C16_IndexStable ==
    [][/\ Len(states') >= Len(states)
       /\ SubSeq(states', 1, Len(states)) = states
       /\ seen \subseteq seen'
       /\ \A e \in seen' \ seen :
             /\ e.value = Cardinality(seen)
             /\ e.value = Len(states)
             /\ ParallelState_eq(states'[e.value + 1], e.key)
       /\ Cardinality(seen' \ seen) = Len(states') - Len(states)
       /\ \A k \in Indices :
             enqueue(seen', states', merge_table', At(states, k)).index = k]_vars

\* Construction is complete, saturation has appended states, and the state
\* of the first symbol still sits at the index it was given first.
C16_Witness ==
    /\ Done
    /\ K > MAX_SYM + 2
    /\ InitialIndex(0) = 0
    /\ ParallelState_eq(At(states, 0), At(lifted, 0))

Written(mt, a, b) == Cell(mt, a, b).result_state # REJECT

(***************************************************************************)
(* C19.  Merge-table cells are write-once-stable: a step of the saturation *)
(* loop, the call merge(a, b), changes no cell but (a, b), and no step of  *)
(* construction changes the value of a cell that has been written, be it a *)
(* later merge, the repeated merge of the same pair or a resize.           *)
(***************************************************************************)
C19_WriteOnceStable ==
    [][/\ \A a \in Indices : \A b \in Indices :
             Written(merge_table, a, b)
                 => Cell(merge_table', a, b) = Cell(merge_table, a, b)
       /\ \A a \in Indices : \A b \in Indices :
             (pc = "saturate" /\ <<a, b>> # <<PendingFirst, PendingSecond>>)
                 => Cell(merge_table', a, b) = Cell(merge_table, a, b)]_vars

(***************************************************************************)
(* C20.  Bracketing-independence of the DFA-state mapping: on the          *)
(* completed artifact, for all interned indices x, y, z, the states at     *)
(* merge_table[merge_table[x, y], z] and merge_table[x, merge_table[y, z]] *)
(* have the same result_state in every slot.                               *)
(***************************************************************************)
C20_BracketingIndependent ==
    Done =>
        \A x \in Indices : \A y \in Indices : \A z \in Indices :
            LET left == Result(Result(x, y), z)
                right == Result(x, Result(y, z))
            IN \A s \in DfaStates :
                  At(states, left)[s].result_state
                      = At(states, right)[s].result_state

Next ==
    \/ Lift
    \/ SeedSymbol
    \/ SeedIdentity
    \/ MergeIJ
    \/ MergeJI
    \/ MergeAbort
    \/ Final
    \/ FinalAbort

Spec == Init /\ [][Next]_vars

(***************************************************************************)
(* MergeTable on its own: a caller that constructs a MergeTable and then   *)
(* calls resize and operator() in any order, with any arguments up to      *)
(* MaxSide.  pc is the caller's position: "table" after construction,      *)
(* "resized" after a resize call, "written" after a write, "aborted" after *)
(* a failed assertion or a fatal write outside the storage.                *)
(***************************************************************************)
MaxSide == 3

Sides == 0 .. MaxSide

\* The value the caller writes.
TableValues == {Transition(START, TRUE)}

TablePositions == {"table", "resized", "written"}

\* The linear offsets of the storage: merge_table.size() = capacity^2.
Storage(mt) == 0 .. (mt.capacity * mt.capacity - 1)

InitTable ==
    /\ dfa = [transitions |-> {}]
    /\ dfa_lexeme = [s \in DfaStates |-> nullptr]
    /\ oob = [drawn |-> FALSE, value |-> DefaultTransition, clobbers |-> 0]
    /\ pc = "table"
    /\ lifted = <<>>
    /\ sym = 0
    /\ seen = {}
    /\ states = <<>>
    /\ merge_table = EmptyMergeTable
    /\ initial_states = <<>>
    /\ identity_state_index = 0
    /\ i = 0
    /\ j = 0
    /\ half = 0
    /\ final_states = <<>>

\* merge_table.resize(n)
TableResize ==
    /\ pc \in TablePositions
    /\ \E n \in Sides : merge_table' = resize(merge_table, n)
    /\ pc' = "resized"
    /\ UNCHANGED <<dfa, dfa_lexeme, lifted, sym, seen, states, initial_states,
                   identity_state_index, i, j, half, final_states, oob>>

\* merge_table(first, second) = t, the assertions of index() passing and the
\* offset inside the storage.
TableSet ==
    /\ pc \in TablePositions
    /\ \E first \in Sides, second \in Sides, t \in TableValues :
          /\ IndexAsserts(merge_table, first, second)
          /\ index(merge_table, first, second) \in Storage(merge_table)
          /\ merge_table' = SetCell(merge_table, first, second, t)
    /\ pc' = "written"
    /\ UNCHANGED <<dfa, dfa_lexeme, lifted, sym, seen, states, initial_states,
                   identity_state_index, i, j, half, final_states, oob>>

\* merge_table(first, second) = t, the assertions passing and the offset
\* outside the storage: the write lands outside the vector, and either the
\* table is left as it was or the process ends.
TableSetOutside ==
    /\ pc \in TablePositions
    /\ \E first \in Sides, second \in Sides :
          /\ IndexAsserts(merge_table, first, second)
          /\ index(merge_table, first, second) \notin Storage(merge_table)
    /\ pc' \in {"written", "aborted"}
    /\ UNCHANGED <<dfa, dfa_lexeme, lifted, sym, seen, states, merge_table,
                   initial_states, identity_state_index, i, j, half,
                   final_states, oob>>

\* An access whose assertion fails.
TableAssertFails ==
    /\ pc \in TablePositions
    /\ \E first \in Sides, second \in Sides :
          ~IndexAsserts(merge_table, first, second)
    /\ pc' = "aborted"
    /\ UNCHANGED <<dfa, dfa_lexeme, lifted, sym, seen, states, merge_table,
                   initial_states, identity_state_index, i, j, half,
                   final_states, oob>>

NextTable ==
    \/ TableResize
    \/ TableSet
    \/ TableSetOutside
    \/ TableAssertFails

SpecTable == InitTable /\ [][NextTable]_vars

\* The step is the call resize(n), n the side the table has afterwards.
IsResizeStep ==
    /\ pc' = "resized"
    /\ merge_table' = resize(merge_table, merge_table'.num_states)

(***************************************************************************)
(* C12.  resize preserves logical coordinates: a call resize(new_K) with   *)
(* new_K at least the previous side K leaves every cell (first, second)    *)
(* with first, second < K reading the value it read before the call, with  *)
(* or without reallocation.                                                *)
(***************************************************************************)
C12_ResizePreserves ==
    [][(IsResizeStep /\ merge_table'.num_states >= merge_table.num_states)
          => \A first \in Sides, second \in Sides :
                (first < merge_table.num_states /\ second < merge_table.num_states)
                    => Cell(merge_table', first, second)
                          = Cell(merge_table, first, second)]_vars

\* Just after a resize, in reallocated storage of stride 4: cell (1, 1) holds
\* a written value and the rest of the storage is default, so the value was
\* written at stride 2 (offset 3) and now reads back at offset 5.
C12_Witness ==
    /\ pc = "resized"
    /\ merge_table.capacity = 2 * MIN_SIZE
    /\ merge_table.num_states > MIN_SIZE
    /\ Cell(merge_table, 1, 1) \in TableValues
    /\ \A o \in Storage(merge_table) :
          o # index(merge_table, 1, 1) => merge_table.cells[o] = DefaultTransition

(***************************************************************************)
(* C13.  resize default-initializes new cells: after a call resize(new_K)  *)
(* from side K, growing or shrinking, every cell (first, second) with      *)
(* first, second < new_K and (first >= K or second >= K) holds the default *)
(* Transition (REJECT, false).                                             *)
(***************************************************************************)
C13_ResizeDefaults ==
    [][IsResizeStep
          => \A first \in Sides, second \in Sides :
                (/\ first < merge_table'.num_states
                 /\ second < merge_table'.num_states
                 /\ (first >= merge_table.num_states
                        \/ second >= merge_table.num_states))
                    => Cell(merge_table', first, second) = DefaultTransition]_vars

(***************************************************************************)
(* C14.  Access is bounds-asserted: an access at (first, second) with      *)
(* first >= num_states or second >= num_states fails the assertion, so an  *)
(* access that passes addresses an offset inside the storage, and the      *)
(* offset of its own logical cell (first < capacity).                      *)
(***************************************************************************)
C14_BoundsAsserted ==
    \A first \in Sides, second \in Sides :
        IndexAsserts(merge_table, first, second)
            => /\ first < merge_table.num_states
               /\ second < merge_table.num_states
               /\ index(merge_table, first, second) \in Storage(merge_table)
               /\ first < merge_table.capacity

(***************************************************************************)
(* The constructor as a running program: it is one sequential function, so *)
(* whenever a step is possible one is taken.                               *)
(***************************************************************************)
FairSpec == Spec /\ WF_vars(Next)

\* The saturation loop has exited: i == states.size() was reached (or the
\* loop was never entered), and control is at or past line 209.
LoopExited == pc \in {"final", "done"}

(***************************************************************************)
(* C17.  Termination: for every DFA the saturation loop eventually reaches *)
(* i == states.size() and exits, and after that no further state is        *)
(* interned.                                                               *)
(***************************************************************************)
C17_Termination ==
    /\ <>LoopExited
    /\ [][LoopExited => (seen' = seen /\ states' = states)]_vars

(***************************************************************************)
(* The constructor with the memory outside the vectors changing under it:  *)
(* what sits at transitions[REJECT] belongs to no object, and allocations  *)
(* and frees between two merge calls (scratch states, the growing vectors  *)
(* and table) may overwrite it, so a later read need not find the value an *)
(* earlier read found.  OobClobber is such an overwrite, between the calls *)
(* merge(i, j) and merge(j, i) of an iteration with i = j, which merge the *)
(* same pair twice; MaxClobbers caps their number in a run.  The inputs    *)
(* are the DFAs whose only transition, if any, leaves START on symbol 0.   *)
(***************************************************************************)
MaxClobbers == 1

VolatileDFAs ==
    {d \in DFAs : \A t \in d.transitions : t.src = START /\ t.sym = 0}

InitVolatile == Init /\ dfa \in VolatileDFAs

OobClobber ==
    /\ pc = "saturate"
    /\ half = 1
    /\ i = j
    /\ oob.drawn
    /\ oob.clobbers < MaxClobbers
    /\ oob' = [oob EXCEPT !.drawn = FALSE, !.clobbers = @ + 1]
    /\ UNCHANGED <<dfa, dfa_lexeme, pc, lifted, sym, seen, states, merge_table,
                   initial_states, identity_state_index, i, j, half, final_states>>

NextVolatile == Next \/ OobClobber

SpecVolatile == InitVolatile /\ [][NextVolatile]_vars

====
